---- MODULE Spec2Model ----
(***************************************************************************)
(* Model of shelf_track.py, a terminal-driven bookstore catalogue backed   *)
(* by two SQLite tables, book(id, title, authorID, qty) and                *)
(* author(id, name, country).                                              *)
(*                                                                         *)
(* A table is the set of its rows.  Every menu workflow is one action; it  *)
(* reads the user's entries and the outcome of each store call from small  *)
(* sets, and records in `last` what the workflow did: the store calls it   *)
(* issued, in order, and the messages it printed.                          *)
(*                                                                         *)
(* An optional value (Python's None, SQL NULL) is a sequence of length     *)
(* zero or one.                                                            *)
(***************************************************************************)
EXTENDS Integers, Sequences, FiniteSets, TLC

VARIABLES book, author, last, alive

vars == <<book, author, last, alive>>

None == <<>>

Some(x) == <<x>>

(***************************************************************************)
(* Seed data, lines 105-111 and 136-142.                                   *)
(***************************************************************************)
initial_books ==
  << [id |-> 3001, title |-> "A Tale of Two Cities", authorID |-> 1290, qty |-> Some(30)],
     [id |-> 3002, title |-> "Harry Potter and the Philosopher's Stone", authorID |-> 8937, qty |-> Some(40)],
     [id |-> 3003, title |-> "TheLion, the Witch and the Wardrobe", authorID |-> 2356, qty |-> Some(25)],
     [id |-> 3004, title |-> "The Lord of the Rings", authorID |-> 6380, qty |-> Some(37)],
     [id |-> 3005, title |-> "Alice's Adventures in Wonderland", authorID |-> 5620, qty |-> Some(12)] >>

initial_authors ==
  << [id |-> 1290, name |-> "Charles Dickens", country |-> "England"],
     [id |-> 8937, name |-> "J.K. Rowling", country |-> "England"],
     [id |-> 2356, name |-> "C.S. Lewis", country |-> "Ireland"],
     [id |-> 6380, name |-> "J.R.R Tolkien", country |-> "South Africa"],
     [id |-> 5620, name |-> "Lewis Carroll", country |-> "England"] >>

(***************************************************************************)
(* Bounds.  SeedRows: how many of the seeded books (with their authors)    *)
(* are still in the database when the session starts; the others were      *)
(* removed by Delete Book with its cascade.  FnBooks: the number of book   *)
(* ids in the tables update_creates_orphan is applied to on its own.       *)
(* DetBooks: the number of books in the catalogues the duplicate detector  *)
(* is applied to on its own.                                               *)
(***************************************************************************)
SeedRows == 1

FnBooks == 3

DetBooks == 6

(***************************************************************************)
(* What the user types.                                                    *)
(***************************************************************************)
TypedTitles == {"A Tale of Two Cities", "Dune"}

TypedNames == {"Charles Dickens"}

TypedCountries == {"USA"}

TypedQty == {5}

\* Entries at a re-prompting input.  An entry is an integer literal, Some(n),
\* or a text that is no integer, None.  The user types one entry of S, or
\* first one entry of R and then one of S.
EntrySeqs(S, R) ==
  { <<Some(x)>> : x \in S } \cup { <<r, Some(x)>> : r \in R, x \in S }

NewBookIdEntries == EntrySeqs({3006}, {Some(42), Some(3001)})

NewAuthorIdEntries == EntrySeqs({1000}, {None, Some(1290)})

BookIdEntries ==
  EntrySeqs({3001, 3002, 3003, 3006}, {}) \cup EntrySeqs({3001}, {Some(42), Some(3006)})

AuthorIdEntries ==
  EntrySeqs({1290, 8937, 2356, 1000}, {}) \cup EntrySeqs({1290}, {None, Some(1000)})

QtyEntries == EntrySeqs(TypedQty, {})

(***************************************************************************)
(* The record store.  execute_sqlite_query returns True, or False when     *)
(* sqlite raises; `ok` says whether the store runs the statement at all,   *)
(* and an INSERT also fails on a primary key that is already there.        *)
(***************************************************************************)
Ids(table) == { r.id : r \in table }

\* InsertRow that reports success whatever the store did
InsertRow_blind(table, row, ok) ==
  IF ok /\ row.id \notin Ids(table)
    THEN [table |-> table \cup {row}, ok |-> TRUE]
    ELSE [table |-> table, ok |-> TRUE]

InsertRow(table, row, ok) ==
  IF ok /\ row.id \notin Ids(table)
    THEN [table |-> table \cup {row}, ok |-> TRUE]
    ELSE [table |-> table, ok |-> FALSE]

\* DeleteById with the WHERE clause lost
DeleteById_all(table, id, ok) ==
  IF ok
    THEN [table |-> {}, ok |-> TRUE]
    ELSE [table |-> table, ok |-> FALSE]

DeleteById(table, id, ok) ==
  IF ok
    THEN [table |-> { r \in table : r.id # id }, ok |-> TRUE]
    ELSE [table |-> table, ok |-> FALSE]

UpdateBookAuthor(table, id, aid, ok) ==
  IF ok
    THEN [table |-> { IF r.id = id THEN [r EXCEPT !.authorID = aid] ELSE r : r \in table },
          ok |-> TRUE]
    ELSE [table |-> table, ok |-> FALSE]

\* UpdateBookQty with the WHERE clause lost
UpdateBookQty_all(table, id, qty, ok) ==
  IF ok
    THEN [table |-> { [r EXCEPT !.qty = qty] : r \in table }, ok |-> TRUE]
    ELSE [table |-> table, ok |-> FALSE]

\* UPDATE book SET qty = ? WHERE id = ?
UpdateBookQty(table, id, qty, ok) ==
  IF ok
    THEN [table |-> { IF r.id = id THEN [r EXCEPT !.qty = qty] ELSE r : r \in table },
          ok |-> TRUE]
    ELSE [table |-> table, ok |-> FALSE]

\* UPDATE book SET title = ? WHERE id = ?
UpdateBookTitle(table, id, title, ok) ==
  IF ok
    THEN [table |-> { IF r.id = id THEN [r EXCEPT !.title = title] ELSE r : r \in table },
          ok |-> TRUE]
    ELSE [table |-> table, ok |-> FALSE]

\* UPDATE author SET name = ? WHERE id = ?
UpdateAuthorName(table, id, name, ok) ==
  IF ok
    THEN [table |-> { IF r.id = id THEN [r EXCEPT !.name = name] ELSE r : r \in table },
          ok |-> TRUE]
    ELSE [table |-> table, ok |-> FALSE]

\* UPDATE author SET country = ? WHERE id = ?
UpdateAuthorCountry(table, id, country, ok) ==
  IF ok
    THEN [table |-> { IF r.id = id THEN [r EXCEPT !.country = country] ELSE r : r \in table },
          ok |-> TRUE]
    ELSE [table |-> table, ok |-> FALSE]

\* The rows of a table as a query returns them.  No query of the program has
\* an ORDER BY; the model returns the rows in ascending id order.
RECURSIVE Scan(_)
Scan(table) ==
  IF table = {} THEN <<>>
  ELSE LET r == CHOOSE x \in table : \A y \in table : x.id <= y.id
       IN  <<r>> \o Scan(table \ {r})

\* book INNER JOIN author ON book.authorID = author.id
JoinRow(b, a) ==
  [bid |-> b.id, title |-> b.title, aid |-> a.id, name |-> a.name,
   country |-> a.country, qty |-> b.qty]

RECURSIVE JoinSeq(_, _)
JoinSeq(bs, au) ==
  IF bs = <<>> THEN <<>>
  ELSE LET b == Head(bs)
           m == { a \in au : a.id = b.authorID }
       IN  (IF m = {} THEN <<>> ELSE <<JoinRow(b, CHOOSE a \in m : TRUE)>>)
           \o JoinSeq(Tail(bs), au)

Join(bk, au) == JoinSeq(Scan(bk), au)

\* SELECT ... WHERE book.id = ?  over the join
JoinById(bk, au, id) == SelectSeq(Join(bk, au), LAMBDA r : r.bid = id)

(***************************************************************************)
(* The similarity matcher, fuzzy_match.extract: every choice scored        *)
(* against the query, best first, the five best kept.  The score is the    *)
(* library's; the model gives equal strings 100, the unlike strings the    *)
(* user types here a score under both thresholds, and the query "Dune"     *)
(* against a title that continues it ("Dune II") the 90 of a partial       *)
(* match.                                                                  *)
(***************************************************************************)
ExtractLimit == 5

TitleThreshold == 90

AuthorThreshold == 75

Sequels ==
  << "Dune I", "Dune II", "Dune III", "Dune IV", "Dune V", "Dune VI", "Dune VII",
     "Dune VIII" >>

Score(query, choice) ==
  IF query = choice THEN 100
  ELSE IF query = "Dune" /\ \E i \in DOMAIN Sequels : choice = Sequels[i] THEN 90
  ELSE 30

FirstBest(s) ==
  CHOOSE i \in 1..Len(s) :
    \A j \in 1..Len(s) : s[j][2] < s[i][2] \/ (s[j][2] = s[i][2] /\ j >= i)

RECURSIVE SortDesc(_)
SortDesc(s) ==
  IF s = <<>> THEN <<>>
  ELSE LET i == FirstBest(s)
       IN  <<s[i]>> \o SortDesc(SubSeq(s, 1, i - 1) \o SubSeq(s, i + 1, Len(s)))

extract(query, choices) ==
  LET scored == [i \in 1..Len(choices) |-> <<choices[i], Score(query, choices[i])>>]
      sorted == SortDesc(scored)
  IN  SubSeq(sorted, 1, IF Len(sorted) < ExtractLimit THEN Len(sorted) ELSE ExtractLimit)

\* The rows of data whose key (keys[i] is the key of data[i]) equals a kept
\* choice, choice by choice in the order of the scores.
Matching(data, keys, choice) ==
  LET idx == SelectSeq([i \in 1..Len(data) |-> i], LAMBDA i : keys[i] = choice)
  IN  [k \in 1..Len(idx) |-> data[idx[k]]]

RECURSIVE Keep(_, _, _, _)
Keep(scores, threshold, data, keys) ==
  IF scores = <<>> THEN <<>>
  ELSE (IF Head(scores)[2] >= threshold
          THEN Matching(data, keys, Head(scores)[1])
          ELSE <<>>)
       \o Keep(Tail(scores), threshold, data, keys)

\* retrieve_similar_titles that compares the excluded title too
retrieve_similar_titles_noExclusion(book_data, title, excluded_title) ==
  LET all_titles == [i \in 1..Len(book_data) |-> book_data[i].title]
  IN  Keep(extract(title, all_titles), TitleThreshold, book_data, all_titles)

retrieve_similar_titles(book_data, title, excluded_title) ==
  LET all_titles  == [i \in 1..Len(book_data) |-> book_data[i].title]
      book_titles == SelectSeq(all_titles, LAMBDA t : t # excluded_title)
  IN  Keep(extract(title, book_titles), TitleThreshold, book_data, all_titles)

retrieve_similar_authors(author_data, new_author_name) ==
  LET author_names == [i \in 1..Len(author_data) |-> author_data[i].name]
  IN  Keep(extract(new_author_name, author_names), AuthorThreshold,
           author_data, author_names)

(***************************************************************************)
(* Input helpers.  Each re-prompts until an entry passes; `entries` are    *)
(* the entries typed, and None as result says that none of them passed.    *)
(***************************************************************************)
IdLength == 4

RECURSIVE Digits(_)
Digits(n) == IF n < 10 THEN 1 ELSE 1 + Digits(n \div 10)

\* len(str(n))
StrLen(n) == IF n < 0 THEN 1 + Digits(-n) ELSE Digits(n)

\* retrieve_sqlite_query returns False when the query fails, and an empty
\* list and False are both falsy.
\* check_id_exists that finds no id
check_id_exists_never(table, id, readOk) == FALSE

check_id_exists(table, id, readOk) == readOk /\ id \in Ids(table)

RECURSIVE get_valid_id(_, _, _)
get_valid_id(table, entries, readOk) ==
  IF entries = <<>> THEN None
  ELSE LET e == Head(entries)
       IN  IF e = None THEN get_valid_id(table, Tail(entries), readOk)
           ELSE IF StrLen(e[1]) # IdLength THEN get_valid_id(table, Tail(entries), readOk)
           ELSE IF check_id_exists(table, e[1], readOk)
             THEN get_valid_id(table, Tail(entries), readOk)
           ELSE e

RECURSIVE get_existing_id(_, _, _)
get_existing_id(table, entries, readOk) ==
  IF entries = <<>> THEN None
  ELSE LET e == Head(entries)
       IN  IF e = None THEN get_existing_id(table, Tail(entries), readOk)
           ELSE IF StrLen(e[1]) # IdLength THEN get_existing_id(table, Tail(entries), readOk)
           ELSE IF check_id_exists(table, e[1], readOk) THEN e
           ELSE get_existing_id(table, Tail(entries), readOk)

\* The first entry that is an integer is returned only when it is the first
\* entry at all: after a ValueError the value of the nested call is dropped.
get_valid_integer(entries) ==
  IF entries # <<>> /\ Head(entries) # None THEN Head(entries) ELSE None

\* the prompt ends with the last entry typed, and not before
Front(entries) == SubSeq(entries, 1, Len(entries) - 1)

EndsPrompt(result, resultOfFront) ==
  /\ result # None
  /\ resultOfFront = None

\* some entry typed at a new-id prompt was turned down as already present
TurnedDown(table, entries) ==
  \E i \in 1..(Len(entries) - 1) :
    /\ entries[i] # None
    /\ StrLen(entries[i][1]) = IdLength
    /\ entries[i][1] \in Ids(table)

\* the integer prompt ends with the first integer typed
IntPromptEnds(entries) ==
  /\ entries # <<>>
  /\ entries[Len(entries)] # None
  /\ \A i \in 1..(Len(entries) - 1) : entries[i] = None

(***************************************************************************)
(* What a workflow leaves in `last`: its name, the book and the author it  *)
(* worked on, whether it asked the orphan confirmation, the store calls    *)
(* it issued in order, and the messages it printed at its end; typed holds *)
(* the new value the user typed for a field (or the arguments of a         *)
(* function applied on its own) and rows the rows a function returned.     *)
(***************************************************************************)
Call(stmt, id, res) == [stmt |-> stmt, id |-> id, res |-> res]

Done(op, bid, aid, asked, calls, msgs) ==
  [op |-> op, bid |-> bid, aid |-> aid, asked |-> asked, calls |-> calls,
   msgs |-> msgs, turnedDown |-> FALSE, dupInsert |-> FALSE, idQueryFailed |-> FALSE,
   typed |-> <<>>, rows |-> <<>>]

\* target_books[0] on an empty result: the session ends with a traceback
IndexError == "IndexError: list index out of range"

\* the False a failed read query returns is iterated, or indexed
TypeErrorIter == "TypeError: 'bool' object is not iterable"

TypeErrorIndex == "TypeError: 'bool' object is not subscriptable"

Tracebacks == { <<IndexError>>, <<TypeErrorIter>>, <<TypeErrorIndex>> }

(***************************************************************************)
(* add_author, lines 408-450.  ain: the name typed, the answer to "use an  *)
(* existing author", the number picked in the list, the country and the    *)
(* entries at the new-id prompt.                                           *)
(***************************************************************************)
\* add_author that returns the new id whether or not the INSERT succeeded
add_author_unchecked(au, ain, fault) ==
  LET similar_authors == retrieve_similar_authors(Scan(au), ain.name)
  IN  IF similar_authors # <<>> /\ ain.use_existing
        THEN [author |-> au, result |-> Some(similar_authors[ain.index + 1].id),
              calls |-> <<>>, turnedDown |-> FALSE, dupInsert |-> FALSE]
        ELSE LET new_author_id == get_valid_id(au, ain.entries, fault # "id query")[1]
                 ins == InsertRow(au, [id |-> new_author_id, name |-> ain.name,
                                       country |-> ain.country],
                                  fault # "INSERT author")
             IN  [author |-> ins.table,
                  result |-> Some(new_author_id),
                  calls |-> <<Call("INSERT author", new_author_id, ins.ok)>>,
                  turnedDown |-> TurnedDown(au, ain.entries),
                  dupInsert |-> new_author_id \in Ids(au)]

add_author(au, ain, fault) ==
  LET similar_authors == retrieve_similar_authors(Scan(au), ain.name)
  IN  IF similar_authors # <<>> /\ ain.use_existing
        THEN [author |-> au, result |-> Some(similar_authors[ain.index + 1].id),
              calls |-> <<>>, turnedDown |-> FALSE, dupInsert |-> FALSE]
        ELSE LET new_author_id == get_valid_id(au, ain.entries, fault # "id query")[1]
                 ins == InsertRow(au, [id |-> new_author_id, name |-> ain.name,
                                       country |-> ain.country],
                                  fault # "INSERT author")
             IN  [author |-> ins.table,
                  result |-> IF ins.ok THEN Some(new_author_id) ELSE None,
                  calls |-> <<Call("INSERT author", new_author_id, ins.ok)>>,
                  turnedDown |-> TurnedDown(au, ain.entries),
                  dupInsert |-> new_author_id \in Ids(au)]

\* the entries with which add_author runs to its end
AuthorInputs(au, fault) ==
  UNION { { [name |-> n, use_existing |-> TRUE, index |-> i, country |-> "",
             entries |-> <<>>] :
            i \in 0..(Len(retrieve_similar_authors(Scan(au), n)) - 1) } : n \in TypedNames }
  \cup
  { x \in [name : TypedNames, use_existing : {FALSE}, index : {0},
           country : TypedCountries, entries : NewAuthorIdEntries] :
      EndsPrompt(get_valid_id(au, x.entries, fault # "id query"),
                     get_valid_id(au, Front(x.entries), fault # "id query")) }

(***************************************************************************)
(* add_book, lines 453-495.                                                *)
(***************************************************************************)
add_book(bk, au, in) ==
  LET similar_titles == retrieve_similar_titles(Join(bk, au), in.title, "")
  IN  IF similar_titles # <<>> /\ ~in.continue_adding
        THEN [book |-> bk, author |-> au,
              last |-> Done("add_book", None, None, FALSE, <<>>, <<"Add Book aborted">>)]
        ELSE
          LET new_book_id == get_valid_id(bk, in.entries, in.fault # "id query")[1]
              a == add_author(au, in.author, in.fault)
              new_book_quantity == get_valid_integer(in.qty)
              ins == InsertRow(bk, [id |-> new_book_id, title |-> in.title,
                                    authorID |-> a.result[1], qty |-> new_book_quantity],
                               in.fault # "INSERT book")
              flags == [turnedDown |-> TurnedDown(bk, in.entries) \/ a.turnedDown,
                        idQueryFailed |-> in.fault = "id query"]
          IN  IF a.result = None
                THEN [book |-> bk, author |-> a.author,
                      last |-> [Done("add_book", Some(new_book_id), None, FALSE, a.calls,
                                     <<"Error generating new Author, add book aborted">>)
                                EXCEPT !.turnedDown = flags.turnedDown,
                                       !.dupInsert = a.dupInsert,
                                       !.idQueryFailed = flags.idQueryFailed]]
                ELSE [book |-> ins.table, author |-> a.author,
                      last |-> [Done("add_book", Some(new_book_id), a.result, FALSE,
                                     a.calls \o <<Call("INSERT book", new_book_id, ins.ok)>>,
                                     IF ins.ok THEN <<"New Book added to database successfully">>
                                               ELSE <<"Error adding new book to database">>)
                                EXCEPT !.turnedDown = flags.turnedDown,
                                       !.dupInsert = a.dupInsert \/ new_book_id \in Ids(bk),
                                       !.idQueryFailed = flags.idQueryFailed]]

NoAuthor == [name |-> "", use_existing |-> FALSE, index |-> 0, country |-> "", entries |-> <<>>]

\* The store call that fails in a workflow, if any: the fault of a workflow
\* names at most one of its calls.
AddBookFaults == {"none", "id query", "INSERT author", "INSERT book"}

\* the workflow's result becomes the state; a traceback ends the session
Apply(result) ==
  \E r \in {result} :
    /\ book' = r.book
    /\ author' = r.author
    /\ last' = r.last
    /\ alive' = (r.last.msgs \notin Tracebacks)

AddBook ==
  /\ alive
  /\ LET picked == AuthorInputs(author, "none")
         misled == AuthorInputs(author, "id query")
     IN  \E t \in TypedTitles :
           \/ /\ retrieve_similar_titles(Join(book, author), t, "") # <<>>
              /\ Apply(add_book(book, author,
                         [title |-> t, continue_adding |-> FALSE, entries |-> <<>>,
                          author |-> NoAuthor, qty |-> <<>>, fault |-> "none"]))
           \/ \E f \in AddBookFaults, e \in NewBookIdEntries :
                /\ EndsPrompt(get_valid_id(book, e, f # "id query"),
                     get_valid_id(book, Front(e), f # "id query"))
                /\ \E a \in (IF f = "id query" THEN misled ELSE picked), q \in QtyEntries :
                     /\ IntPromptEnds(q)
                     /\ (f = "INSERT author" => ~a.use_existing)
                     /\ Apply(add_book(book, author,
                                [title |-> t, continue_adding |-> TRUE, entries |-> e,
                                 author |-> a, qty |-> q, fault |-> f]))

(***************************************************************************)
(* update_creates_orphan, lines 533-553.                                   *)
(***************************************************************************)
\* update_creates_orphan with other comparisons
update_creates_orphan_lt1(bk, author_id) ==
  Cardinality({ b \in bk : b.authorID = author_id }) < 1

update_creates_orphan_any(bk, author_id) ==
  Cardinality({ b \in bk : b.authorID = author_id }) >= 1

update_creates_orphan_le2(bk, author_id) ==
  Cardinality({ b \in bk : b.authorID = author_id }) <= 2

update_creates_orphan_eq1(bk, author_id) ==
  Cardinality({ b \in bk : b.authorID = author_id }) = 1

update_creates_orphan(bk, author_id) ==
  Cardinality({ b \in bk : b.authorID = author_id }) < 2

OrphanQuery == "SELECT id FROM book WHERE authorID"

(***************************************************************************)
(* delete_book, lines 916-986.  in: the entries at the book-id prompt, the *)
(* answers to the two confirmations, and the store call that fails.        *)
(***************************************************************************)
\* the message at the end, lines 973-986
delete_report(delete_successful, delete_creates_orphan, orphan_deleted) ==
  IF ~delete_successful
    THEN <<"Error Deleting book, please contact system Admin">>
  ELSE IF ~delete_creates_orphan
    THEN <<"Book succesfully deleted">>
  ELSE IF orphan_deleted
    THEN <<"Book successfully deleted. Author successfully deleted">>
  ELSE <<"Book Deleted, orphan Author entry created. Please contact system Admin">>

\* lines 956-986, once the first confirmation is given
delete_confirmed(bk, au, t, in) ==
  LET delete_creates_orphan == update_creates_orphan(bk, t.aid)
      asked == <<Call(OrphanQuery, t.aid, delete_creates_orphan)>>
      del == DeleteById(bk, t.bid, in.fault # "DELETE book")
      cascade == del.ok /\ delete_creates_orphan
      orphan_deleted == DeleteById(au, t.aid, in.fault # "DELETE author")
  IN  IF delete_creates_orphan /\ ~in.continue_deleting
        THEN [book |-> bk, author |-> au,
              last |-> Done("delete_book", Some(t.bid), Some(t.aid), TRUE, asked,
                            <<"Book delete aborted">>)]
        ELSE [book |-> del.table,
              author |-> IF cascade THEN orphan_deleted.table ELSE au,
              last |-> Done("delete_book", Some(t.bid), Some(t.aid), delete_creates_orphan,
                            asked \o <<Call("DELETE book", t.bid, del.ok)>>
                              \o (IF cascade
                                    THEN <<Call("DELETE author", t.aid, orphan_deleted.ok)>>
                                    ELSE <<>>),
                            delete_report(del.ok, delete_creates_orphan, orphan_deleted.ok))]

\* delete_book going on after the first confirmation is declined
delete_book_noReturn(bk, au, in) ==
  LET target_id == get_existing_id(bk, in.entries, TRUE)[1]
      target_book_list == JoinById(bk, au, target_id)
      t == target_book_list[1]
      r == delete_confirmed(bk, au, t, in)
  IN  IF target_book_list = <<>>
        THEN [book |-> bk, author |-> au,
              last |-> Done("delete_book", Some(target_id), None, FALSE, <<>>, <<IndexError>>)]
      ELSE IF ~in.confirm_delete
        THEN [r EXCEPT !.last.msgs = <<"Book delete aborted">>]
      ELSE r

delete_book(bk, au, in) ==
  LET target_id == get_existing_id(bk, in.entries, TRUE)[1]
      target_book_list == JoinById(bk, au, target_id)
      t == target_book_list[1]
  IN  IF target_book_list = <<>>
        THEN [book |-> bk, author |-> au,
              last |-> Done("delete_book", Some(target_id), None, FALSE, <<>>, <<IndexError>>)]
      ELSE IF ~in.confirm_delete
        THEN [book |-> bk, author |-> au,
              last |-> Done("delete_book", Some(t.bid), Some(t.aid), FALSE, <<>>,
                            <<"Book delete aborted">>)]
      ELSE delete_confirmed(bk, au, t, in)

\* the entries at a book-id prompt that end it, each with the row looked up
BookPicks(bk, au) ==
  { [entries |-> e, rows |-> JoinById(bk, au, get_existing_id(bk, e, TRUE)[1])] :
      e \in { x \in BookIdEntries : EndsPrompt(get_existing_id(bk, x, TRUE),
                     get_existing_id(bk, Front(x), TRUE)) } }

\* the answers and the failing call that make a difference, given whether
\* the orphan confirmation is asked
CascadeChoices(orphan, primary) ==
  { x \in [go : BOOLEAN, fault : {"none", primary, "DELETE author"}] :
      /\ (~x.go => orphan /\ x.fault = "none")
      /\ (x.fault = "DELETE author" => orphan) }

DeleteBook ==
  /\ alive
  /\ \E p \in BookPicks(book, author) :
       \/ Apply(delete_book(book, author,
                  [entries |-> p.entries, confirm_delete |-> FALSE,
                   continue_deleting |-> TRUE, fault |-> "none"]))
       \/ /\ p.rows # <<>>
          /\ \E x \in CascadeChoices(update_creates_orphan(book, p.rows[1].aid), "DELETE book") :
               Apply(delete_book(book, author,
                       [entries |-> p.entries, confirm_delete |-> TRUE,
                        continue_deleting |-> x.go, fault |-> x.fault]))

(***************************************************************************)
(* update_author_id, lines 647-769, on the joined row t that update_book   *)
(* fetched.  in: the option picked (1 existing author, 2 new author,       *)
(* 0 back), the entries at the author-id prompt, the answer to the orphan  *)
(* confirmation, the entries of add_author, the store call that fails.     *)
(***************************************************************************)
\* reassign_report without the branch for a failed removal
reassign_report_silent(book_edited, orphan, orphan_removed) ==
  IF ~book_edited
    THEN <<"Error Editing Author ID, please contact system Administrator">>
  ELSE IF orphan /\ orphan_removed
    THEN <<"Orphan Author removed from database", "Author ID changed successfully">>
  ELSE <<"Author ID changed successfully">>

\* the messages at the end, lines 695-714 and 747-766
reassign_report(book_edited, orphan, orphan_removed) ==
  IF ~book_edited
    THEN <<"Error Editing Author ID, please contact system Administrator">>
  ELSE IF ~orphan
    THEN <<"Author ID changed successfully">>
  ELSE IF orphan_removed
    THEN <<"Orphan Author removed from database", "Author ID changed successfully">>
  ELSE <<"Removal of Orphan entry unsuccessful, Please contact system administrator",
         "Author ID changed successfully">>

\* Cascade removing the author without a look at the outcome of the update
Cascade_unchecked(op, bk, au, t, new_id, orphan, before, fault) ==
  LET book_edited == UpdateBookAuthor(bk, t.bid, new_id, fault # "UPDATE book")
      orphan_removed == DeleteById(au, t.aid, fault # "DELETE author")
  IN  [book |-> book_edited.table,
       author |-> IF orphan THEN orphan_removed.table ELSE au,
       last |-> Done(op, Some(t.bid), Some(t.aid), orphan,
                     before \o <<Call("UPDATE book", t.bid, book_edited.ok)>>
                       \o (IF orphan
                             THEN <<Call("DELETE author", t.aid, orphan_removed.ok)>>
                             ELSE <<>>),
                     reassign_report(book_edited.ok, orphan, orphan_removed.ok))]

\* lines 688-714 and 740-766: the update of the book and the removal of the
\* author it leaves behind; `before` are the store calls issued so far
Cascade(op, bk, au, t, new_id, orphan, before, fault) ==
  LET book_edited == UpdateBookAuthor(bk, t.bid, new_id, fault # "UPDATE book")
      cascade == book_edited.ok /\ orphan
      orphan_removed == DeleteById(au, t.aid, fault # "DELETE author")
  IN  [book |-> book_edited.table,
       author |-> IF cascade THEN orphan_removed.table ELSE au,
       last |-> Done(op, Some(t.bid), Some(t.aid), orphan,
                     before \o <<Call("UPDATE book", t.bid, book_edited.ok)>>
                       \o (IF cascade
                             THEN <<Call("DELETE author", t.aid, orphan_removed.ok)>>
                             ELSE <<>>),
                     reassign_report(book_edited.ok, orphan, orphan_removed.ok))]

update_author_id(bk, au, t, in) ==
  LET orphan == update_creates_orphan(bk, t.aid)
      asked == <<Call(OrphanQuery, t.aid, orphan)>>
      aborted(op) ==
        [book |-> bk, author |-> au,
         last |-> Done(op, Some(t.bid), Some(t.aid), TRUE, asked,
                       <<"Author ID update aborted, returning to main menu">>)]
  IN  CASE in.option = 1 ->
             LET new_id == get_existing_id(au, in.entries, TRUE)[1]
             IN  IF orphan /\ ~in.continue_editing
                   THEN aborted("reassign_existing")
                   ELSE Cascade("reassign_existing", bk, au, t, new_id, orphan, asked, in.fault)
        [] in.option = 2 ->
             IF orphan /\ ~in.continue_editing
               THEN aborted("reassign_new")
               ELSE LET a == add_author(au, in.author, in.fault)
                        flagged(l) == [l EXCEPT !.turnedDown = a.turnedDown,
                                                !.dupInsert = a.dupInsert,
                                                !.idQueryFailed = (in.fault = "id query")]
                        r == Cascade("reassign_new", bk, a.author, t, a.result[1], orphan,
                                     asked \o a.calls, in.fault)
                    IN  IF a.result = None
                          THEN [book |-> bk, author |-> a.author,
                                last |-> flagged(Done("reassign_new", Some(t.bid), Some(t.aid),
                                           orphan, asked \o a.calls,
                                           <<"Error generating new author, please contact system Administrator">>))]
                          ELSE [r EXCEPT !.last = flagged(r.last)]
        [] OTHER ->
             [book |-> bk, author |-> au,
              last |-> Done("update_author_id", Some(t.bid), Some(t.aid), FALSE, <<>>,
                            <<"Author ID update aborted, returning to main menu">>)]

(***************************************************************************)
(* update_quantity, lines 573-599: the value of get_valid_integer is       *)
(* written whatever it is; the function returns it when the UPDATE         *)
(* succeeded and False otherwise.                                          *)
(***************************************************************************)
update_quantity(bk, book_id, in) ==
  LET new_quant == get_valid_integer(in.qty)
      upd == UpdateBookQty(bk, book_id, new_quant, in.fault # "UPDATE book qty")
  IN  [book |-> upd.table, new_quant |-> new_quant, quant_updated |-> upd.ok]

\* `if new_quantity:` at line 896: False, None and 0 are falsy
Truthy(u) == u.quant_updated /\ u.new_quant # None /\ u.new_quant[1] # 0

(***************************************************************************)
(* update_title, lines 602-644: the UPDATE stands inside the branch taken  *)
(* when similar titles were found and the user goes on.                    *)
(***************************************************************************)
update_title(bk, au, t, in) ==
  LET similar_titles == retrieve_similar_titles(Join(bk, au), in.title, t.title)
      upd == UpdateBookTitle(bk, t.bid, in.title, in.fault # "UPDATE book title")
      done(calls, msgs) ==
        [Done("update_title", Some(t.bid), Some(t.aid), FALSE, calls, msgs)
           EXCEPT !.typed = <<in.title>>, !.rows = similar_titles]
  IN  IF similar_titles # <<>> /\ in.continue_editing
        THEN [book |-> upd.table, author |-> au,
              last |-> done(<<Call("UPDATE book title", t.bid, upd.ok)>>,
                            IF upd.ok THEN <<"Book renamed successfully">>
                                      ELSE <<"Error updating title, Please contact system admin">>)]
        ELSE [book |-> bk, author |-> au, last |-> done(<<>>, <<>>)]

(***************************************************************************)
(* update_author_name, lines 772-802, and update_author_country, lines     *)
(* 804-833: the affected books are listed, the user confirms, types the    *)
(* new value, and the author row is updated.                               *)
(***************************************************************************)
update_author_name(bk, au, t, in) ==
  LET upd == UpdateAuthorName(au, t.aid, in.value, in.fault # "UPDATE author name")
      done(calls, msgs) ==
        [Done("update_author_name", Some(t.bid), Some(t.aid), FALSE, calls, msgs)
           EXCEPT !.typed = IF in.continue_editing THEN <<in.value>> ELSE <<>>]
  IN  IF ~in.continue_editing
        THEN [book |-> bk, author |-> au,
              last |-> done(<<>>, <<"Editing author name Aborted, returning to main menu">>)]
        ELSE [book |-> bk, author |-> upd.table,
              last |-> done(<<Call("UPDATE author name", t.aid, upd.ok)>>,
                            IF upd.ok THEN <<"Author name changed">>
                                      ELSE <<"Error changing author name, please contact system Admin">>)]

update_author_country(bk, au, t, in) ==
  LET upd == UpdateAuthorCountry(au, t.aid, in.value, in.fault # "UPDATE author country")
      done(calls, msgs) ==
        [Done("update_author_country", Some(t.bid), Some(t.aid), FALSE, calls, msgs)
           EXCEPT !.typed = IF in.continue_editing THEN <<in.value>> ELSE <<>>]
  IN  IF ~in.continue_editing
        THEN [book |-> bk, author |-> au,
              last |-> done(<<>>, <<"Editing author country Aborted, returning to main menu">>)]
        ELSE [book |-> bk, author |-> upd.table,
              last |-> done(<<Call("UPDATE author country", t.aid, upd.ok)>>,
                            IF upd.ok THEN <<"Author country changed">>
                                      ELSE <<"Error changing author country, please contact system Admin">>)]

(***************************************************************************)
(* update_book, lines 835-914: the book-id prompt, the joined lookup and   *)
(* the dispatch on the field picked: 1 quantity, 2 title, 3 author id,     *)
(* 4 author name, 5 author country, 0 goes back.                           *)
(***************************************************************************)
update_book(bk, au, in) ==
  LET target_id == get_existing_id(bk, in.entries, TRUE)[1]
      target_books == JoinById(bk, au, target_id)
  IN  IF target_books = <<>>
        THEN [book |-> bk, author |-> au,
              last |-> Done("update_book", Some(target_id), None, FALSE, <<>>, <<IndexError>>)]
      ELSE CASE in.edit_selection = 1 ->
                  LET u == update_quantity(bk, target_id, in.sub)
                  IN  [book |-> u.book, author |-> au,
                       last |-> [Done("update_quantity", Some(target_id),
                                      Some(target_books[1].aid), FALSE,
                                      <<Call("UPDATE book qty", target_id, u.quant_updated)>>,
                                      IF Truthy(u)
                                        THEN <<"stock updated">>
                                        ELSE <<"Error updating stock, please contact system admin">>)
                                   EXCEPT !.typed = <<u.new_quant>>]]
             [] in.edit_selection = 2 -> update_title(bk, au, target_books[1], in.sub)
             [] in.edit_selection = 3 -> update_author_id(bk, au, target_books[1], in.sub)
             [] in.edit_selection = 4 -> update_author_name(bk, au, target_books[1], in.sub)
             [] in.edit_selection = 5 -> update_author_country(bk, au, target_books[1], in.sub)
             [] OTHER ->
                  [book |-> bk, author |-> au,
                   last |-> Done("update_book", Some(target_id), Some(target_books[1].aid),
                                 FALSE, <<>>, <<>>)]

NoSub == [option |-> 0, entries |-> <<>>, continue_editing |-> TRUE, author |-> NoAuthor,
          fault |-> "none"]

\* Update Book, back to the main menu at once, or a book whose lookup is empty
UpdateBookBack ==
  /\ alive
  /\ \E p \in BookPicks(book, author) :
       Apply(update_book(book, author,
               [entries |-> p.entries, edit_selection |-> 0, sub |-> NoSub]))

\* Update Book, Update Author ID, back
ReassignBack ==
  /\ alive
  /\ \E p \in BookPicks(book, author) :
       /\ p.rows # <<>>
       /\ Apply(update_book(book, author,
                  [entries |-> p.entries, edit_selection |-> 3, sub |-> NoSub]))

\* Update Book, Update Author ID, assign to an existing author
ReassignExisting ==
  /\ alive
  /\ LET targets == { x \in AuthorIdEntries :
                        EndsPrompt(get_existing_id(author, x, TRUE),
                     get_existing_id(author, Front(x), TRUE)) }
     IN  \E p \in BookPicks(book, author) :
           /\ p.rows # <<>>
           /\ \E ae \in targets,
                 x \in CascadeChoices(update_creates_orphan(book, p.rows[1].aid), "UPDATE book") :
                Apply(update_book(book, author,
                        [entries |-> p.entries, edit_selection |-> 3,
                         sub |-> [option |-> 1, entries |-> ae, continue_editing |-> x.go,
                                  author |-> NoAuthor, fault |-> x.fault]]))

\* Update Book, Update Author ID, assign to a new author
ReassignNew ==
  /\ alive
  /\ LET picked == AuthorInputs(author, "none")
         misled == AuthorInputs(author, "id query")
     IN  \E p \in BookPicks(book, author) :
           /\ p.rows # <<>>
           /\ LET orphan == update_creates_orphan(book, p.rows[1].aid)
              IN  \/ /\ orphan
                     /\ Apply(update_book(book, author,
                                [entries |-> p.entries, edit_selection |-> 3,
                                 sub |-> [option |-> 2, entries |-> <<>>,
                                          continue_editing |-> FALSE,
                                          author |-> NoAuthor, fault |-> "none"]]))
                  \/ \E f \in {"none", "id query", "INSERT author", "UPDATE book", "DELETE author"} :
                       /\ (f = "DELETE author" => orphan)
                       /\ \E a \in (IF f = "id query" THEN misled ELSE picked) :
                            /\ (f \in {"id query", "INSERT author"} => ~a.use_existing)
                            /\ Apply(update_book(book, author,
                                       [entries |-> p.entries, edit_selection |-> 3,
                                        sub |-> [option |-> 2, entries |-> <<>>,
                                                 continue_editing |-> TRUE,
                                                 author |-> a, fault |-> f]]))

\* get_existing_id returns only an entry that check_id_exists finds in the
\* table, so some entry ends the prompt only if the table holds such an id
CanEndPrompt(table) == \E id \in Ids(table) : StrLen(id) = IdLength

\* Update Book, Delete Book or Search by ID chosen when no entry can end the
\* book-id prompt: every entry is turned down and the prompt is shown again,
\* the session never comes back to the main menu
StuckAtPrompt ==
  /\ alive
  /\ ~CanEndPrompt(book)
  /\ alive' = FALSE
  /\ last' = Done("get_existing_id", None, None, FALSE, <<>>,
                  <<"ID does not match any existing book IDs, please enter an existing ID">>)
  /\ UNCHANGED <<book, author>>

\* the main menu, lines 1082-1114: 0 leaves the loop
Exit ==
  /\ alive
  /\ alive' = FALSE
  /\ last' = Done("exit", None, None, FALSE, <<>>, <<>>)
  /\ UNCHANGED <<book, author>>

(***************************************************************************)
(* The database the session starts on: the seeded catalogue, lines 82-146  *)
(* and 1077-1079, of which the first SeedRows books and authors are left.  *)
(***************************************************************************)
Init ==
  /\ \E k \in 0..SeedRows :
       /\ book = { initial_books[i] : i \in 1..k }
       /\ author = { initial_authors[i] : i \in 1..k }
  /\ last = Done("none", None, None, FALSE, <<>>, <<>>)
  /\ alive = TRUE

Next ==
  \/ AddBook
  \/ UpdateBookBack
  \/ ReassignBack
  \/ ReassignExisting
  \/ ReassignNew
  \/ DeleteBook
  \/ StuckAtPrompt
  \/ Exit

Spec == Init /\ [][Next]_vars

(***************************************************************************)
(* update_creates_orphan on its own: applied to any author id over any     *)
(* book table of up to FnBooks books, each by one of three authors.        *)
(***************************************************************************)
FnAuthorIds == { initial_authors[i].id : i \in 1..3 }

FnTables ==
  { { [initial_books[i] EXCEPT !.authorID = f[i]] : i \in DOMAIN f } :
      f \in UNION { [D -> FnAuthorIds] : D \in SUBSET (1..FnBooks) } }

InitFn ==
  /\ book \in FnTables
  /\ author = { initial_authors[i] : i \in 1..3 }
  /\ last = Done("none", None, None, FALSE, <<>>, <<>>)
  /\ alive = TRUE

OrphanCheck ==
  /\ \E a \in FnAuthorIds :
       last' = Done("update_creates_orphan", None, Some(a), FALSE,
                    <<Call(OrphanQuery, a, update_creates_orphan(book, a))>>, <<>>)
  /\ UNCHANGED <<book, author, alive>>

NextFn ==
  \/ OrphanCheck

SpecFn == InitFn /\ [][NextFn]_vars

(***************************************************************************)
(* The two id prompts on their own, lines 240-297: applied to the entries  *)
(* a user may type at them, over the book tables of FnTables, with the     *)
(* id-existence query running or failing.                                  *)
(***************************************************************************)
TypedIdEntries ==
  { None, Some(-123), Some(0), Some(42), Some(3001), Some(3006), Some(12345) }

IdEntries ==
  { <<x>> : x \in TypedIdEntries } \cup { <<r, x>> : r, x \in TypedIdEntries }

PromptNewId ==
  /\ \E e \in IdEntries, readOk \in BOOLEAN :
       /\ EndsPrompt(get_valid_id(book, e, readOk), get_valid_id(book, Front(e), readOk))
       /\ last' = [Done("get_valid_id", get_valid_id(book, e, readOk), None, FALSE, <<>>, <<>>)
                     EXCEPT !.idQueryFailed = ~readOk]
  /\ UNCHANGED <<book, author, alive>>

PromptExistingId ==
  /\ \E e \in IdEntries, readOk \in BOOLEAN :
       /\ EndsPrompt(get_existing_id(book, e, readOk), get_existing_id(book, Front(e), readOk))
       /\ last' = [Done("get_existing_id", get_existing_id(book, e, readOk), None, FALSE,
                        <<>>, <<>>)
                     EXCEPT !.idQueryFailed = ~readOk]
  /\ UNCHANGED <<book, author, alive>>

NextId ==
  \/ PromptNewId
  \/ PromptExistingId

SpecId == InitFn /\ [][NextId]_vars

(***************************************************************************)
(* retrieve_similar_titles on its own, lines 300-341: applied to a query   *)
(* and an excluded title over catalogues of up to DetBooks books by one    *)
(* author, the i-th book titled "Dune", "Emma" or the i-th sequel.         *)
(***************************************************************************)
DetCatalogues ==
  { { [id |-> 3000 + i, title |-> f[i], authorID |-> initial_authors[1].id,
       qty |-> Some(i)] : i \in DOMAIN f } :
      f \in UNION { { g \in [1..n -> {"Dune", "Emma"} \cup { Sequels[i] : i \in 1..n }] :
                        \A i \in 1..n : g[i] \in {"Dune", "Emma", Sequels[i]} } :
                    n \in 0..DetBooks } }

InitDet ==
  /\ book \in DetCatalogues
  /\ author = { initial_authors[1] }
  /\ last = Done("none", None, None, FALSE, <<>>, <<>>)
  /\ alive = TRUE

DetectTitles ==
  /\ \E title \in {"Dune", "Emma"}, excluded_title \in {"", "Dune"} :
       last' = [Done("retrieve_similar_titles", None, None, FALSE, <<>>, <<>>)
                  EXCEPT !.typed = <<title, excluded_title>>,
                         !.rows = retrieve_similar_titles(Join(book, author), title,
                                                          excluded_title)]
  /\ UNCHANGED <<book, author, alive>>

NextDet ==
  \/ DetectTitles

SpecDet == InitDet /\ [][NextDet]_vars

(***************************************************************************)
(* The field updates of Update Book, on a catalogue of the first two       *)
(* seeded books and their authors.                                         *)
(***************************************************************************)
UpdQtyEntries == EntrySeqs({0, -1, 5}, {None})

\* Update Book, Update Stock Quantity
UpdateQuantity ==
  /\ alive
  /\ \E p \in BookPicks(book, author) :
       /\ p.rows # <<>>
       /\ \E q \in UpdQtyEntries, f \in {"none", "UPDATE book qty"} :
            /\ IntPromptEnds(q)
            /\ Apply(update_book(book, author,
                       [entries |-> p.entries, edit_selection |-> 1,
                        sub |-> [qty |-> q, fault |-> f]]))

\* Update Book, Update Title
UpdateTitle ==
  /\ alive
  /\ \E p \in BookPicks(book, author) :
       /\ p.rows # <<>>
       /\ \E t \in TypedTitles, go \in BOOLEAN, f \in {"none", "UPDATE book title"} :
            /\ (f # "none" => go)
            /\ (retrieve_similar_titles(Join(book, author), t, p.rows[1].title) = <<>>
                  => (go /\ f = "none"))
            /\ Apply(update_book(book, author,
                       [entries |-> p.entries, edit_selection |-> 2,
                        sub |-> [title |-> t, continue_editing |-> go, fault |-> f]]))

\* Update Book, Update Author Name
UpdateAuthorNameOp ==
  /\ alive
  /\ \E p \in BookPicks(book, author) :
       /\ p.rows # <<>>
       /\ \E n \in TypedNames, go \in BOOLEAN, f \in {"none", "UPDATE author name"} :
            /\ (f # "none" => go)
            /\ Apply(update_book(book, author,
                       [entries |-> p.entries, edit_selection |-> 4,
                        sub |-> [value |-> n, continue_editing |-> go, fault |-> f]]))

\* Update Book, Update Author Country
UpdateAuthorCountryOp ==
  /\ alive
  /\ \E p \in BookPicks(book, author) :
       /\ p.rows # <<>>
       /\ \E c \in TypedCountries, go \in BOOLEAN, f \in {"none", "UPDATE author country"} :
            /\ (f # "none" => go)
            /\ Apply(update_book(book, author,
                       [entries |-> p.entries, edit_selection |-> 5,
                        sub |-> [value |-> c, continue_editing |-> go, fault |-> f]]))

InitUpd ==
  /\ book = { initial_books[1], initial_books[2] }
  /\ author = { initial_authors[1], initial_authors[2] }
  /\ last = Done("none", None, None, FALSE, <<>>, <<>>)
  /\ alive = TRUE

NextUpd ==
  \/ UpdateQuantity
  \/ UpdateTitle
  \/ UpdateAuthorNameOp
  \/ UpdateAuthorCountryOp

SpecUpd == InitUpd /\ [][NextUpd]_vars

(***************************************************************************)
(* Every workflow of Update Book on the two-book catalogue, the field      *)
(* updates and the two reassignments, in a session where the user always   *)
(* selects the second book and types 5 as quantity.                        *)
(***************************************************************************)
Selected == last'.bid = Some(initial_books[2].id)

FrameQuantity == UpdateQuantity /\ Selected /\ last'.typed = <<Some(5)>>

FrameTitle == UpdateTitle /\ Selected

FrameAuthorName == UpdateAuthorNameOp /\ Selected

FrameAuthorCountry == UpdateAuthorCountryOp /\ Selected

FrameReassignExisting == ReassignExisting /\ Selected

FrameReassignNew == ReassignNew /\ Selected

NextFrame ==
  \/ FrameQuantity
  \/ FrameTitle
  \/ FrameAuthorName
  \/ FrameAuthorCountry
  \/ FrameReassignExisting
  \/ FrameReassignNew

SpecFrame == InitUpd /\ [][NextFrame]_vars

(***************************************************************************)
(* The read-only operations.  retrieve_sqlite_query, lines 47-79, runs a   *)
(* SELECT: it leaves the database as it is and returns the rows, or False  *)
(* when sqlite raises.  Its result here is the database after the call and *)
(* whether the rows came back.                                             *)
(***************************************************************************)
\* retrieve_sqlite_query that runs a DELETE FROM book
retrieve_sqlite_query_writing(bk, au, ok) == [book |-> {}, author |-> au, ok |-> ok]

retrieve_sqlite_query(bk, au, ok) == [book |-> bk, author |-> au, ok |-> ok]

\* view_all_books, lines 498-530
view_all_books(bk, au, fault) ==
  LET q == retrieve_sqlite_query(bk, au, fault # "SELECT")
  IN  [book |-> q.book, author |-> q.author,
       last |-> [Done("view_all_books", None, None, FALSE, <<>>,
                      IF q.ok THEN <<>> ELSE <<TypeErrorIter>>)
                   EXCEPT !.rows = IF q.ok THEN Join(bk, au) ELSE <<>>]]

\* search_by_id, lines 988-1023
search_by_id(bk, au, in) ==
  LET target_id == get_existing_id(bk, in.entries, TRUE)[1]
      q == retrieve_sqlite_query(bk, au, in.fault # "SELECT")
      target_book_list == JoinById(bk, au, target_id)
      done(aid, msgs, rows) ==
        [book |-> q.book, author |-> q.author,
         last |-> [Done("search_by_id", Some(target_id), aid, FALSE, <<>>, msgs)
                     EXCEPT !.rows = rows]]
  IN  IF ~q.ok THEN done(None, <<TypeErrorIndex>>, <<>>)
      ELSE IF target_book_list = <<>> THEN done(None, <<IndexError>>, <<>>)
      ELSE done(Some(target_book_list[1].aid), <<"-Results-">>, <<target_book_list[1]>>)

\* search_by_title, lines 1025-1050
search_by_title(bk, au, in) ==
  LET q == retrieve_sqlite_query(bk, au, in.fault # "SELECT")
      search_results == retrieve_similar_titles(Join(bk, au), in.title, "")
  IN  [book |-> q.book, author |-> q.author,
       last |-> [Done("search_by_title", None, None, FALSE, <<>>,
                      IF ~q.ok THEN <<TypeErrorIter>>
                      ELSE IF search_results # <<>> THEN <<"-Best Results-">>
                      ELSE <<"No results for query found">>)
                   EXCEPT !.typed = <<in.title>>,
                          !.rows = IF q.ok THEN search_results ELSE <<>>]]

\* get_affected_books, lines 555-570: SELECT id, title FROM book where authorID = ?
get_affected_books(bk, author_id) ==
  LET sel == SelectSeq(Scan(bk), LAMBDA b : b.authorID = author_id)
  IN  [i \in 1..Len(sel) |-> [id |-> sel[i].id, title |-> sel[i].title]]

\* a function that only queries, applied on its own
Queried(bk, au, op, aid, typed, calls, rows) ==
  LET q == retrieve_sqlite_query(bk, au, TRUE)
  IN  [book |-> q.book, author |-> q.author,
       last |-> [Done(op, None, aid, FALSE, calls, <<>>)
                   EXCEPT !.typed = typed, !.rows = rows]]

\* Search Book, Search by ID
SearchById ==
  /\ alive
  /\ \E p \in BookPicks(book, author), f \in {"none", "SELECT"} :
       Apply(search_by_id(book, author, [entries |-> p.entries, fault |-> f]))

\* Search Book, Search by title
SearchByTitle ==
  /\ alive
  /\ \E t \in TypedTitles, f \in {"none", "SELECT"} :
       Apply(search_by_title(book, author, [title |-> t, fault |-> f]))

\* View Details of All Books
ViewAll ==
  /\ alive
  /\ \E f \in {"none", "SELECT"} : Apply(view_all_books(book, author, f))

FindSimilarTitles ==
  /\ alive
  /\ \E t \in TypedTitles, x \in {""} \cup TypedTitles :
       Apply(Queried(book, author, "retrieve_similar_titles", None, <<t, x>>, <<>>,
                     retrieve_similar_titles(Join(book, author), t, x)))

FindSimilarAuthors ==
  /\ alive
  /\ \E n \in TypedNames :
       Apply(Queried(book, author, "retrieve_similar_authors", None, <<n>>, <<>>,
                     retrieve_similar_authors(Scan(author), n)))

WouldOrphan ==
  /\ alive
  /\ \E a \in FnAuthorIds :
       Apply(Queried(book, author, "update_creates_orphan", Some(a), <<>>,
                     <<Call(OrphanQuery, a, update_creates_orphan(book, a))>>, <<>>))

ListAffectedBooks ==
  /\ alive
  /\ \E a \in FnAuthorIds :
       Apply(Queried(book, author, "get_affected_books", Some(a), <<>>, <<>>,
                     get_affected_books(book, a)))

NextRead ==
  \/ SearchById
  \/ SearchByTitle
  \/ ViewAll
  \/ FindSimilarTitles
  \/ FindSimilarAuthors
  \/ WouldOrphan
  \/ ListAffectedBooks

SpecRead == InitFn /\ [][NextRead]_vars

(***************************************************************************)
(* Properties.                                                             *)
(***************************************************************************)
Refs(bk, aid) == { b \in bk : b.authorID = aid }

\* I2: every author row is referenced by at least one book row
I2(bk, au) == \A a \in au : Refs(bk, a.id) # {}

Mutations == {"add_book", "reassign_existing", "reassign_new", "delete_book"}

AbortMessages ==
  { <<"Add Book aborted">>, <<"Book delete aborted">>,
    <<"Author ID update aborted, returning to main menu">> }

\* the workflow issued the store call c
Issued(l, c) == \E i \in DOMAIN l.calls : l.calls[i] = c

IssuedStmt(l, stmt) == \E i \in DOMAIN l.calls : l.calls[i].stmt = stmt

\* every store call of the workflow succeeded
StoreOk(l) ==
  /\ ~l.idQueryFailed
  /\ \A i \in DOMAIN l.calls : l.calls[i].stmt # OrphanQuery => l.calls[i].res

\* the primary mutation of a workflow with a cascade
Primary(op) == IF op = "delete_book" THEN "DELETE book" ELSE "UPDATE book"

Cascading == {"reassign_existing", "reassign_new", "delete_book"}

\* C1: I2 holds of the catalogue the session starts on, and every Add Book,
\* author reassignment and Delete Book that runs to its end without being
\* aborted, its store calls succeeding, takes a catalogue in which every
\* author row is referenced by a book to another such catalogue.
C1_I2Maintained ==
  /\ I2(book, author)
  /\ [][ (/\ I2(book, author)
          /\ last'.op \in Mutations
          /\ last'.msgs \notin AbortMessages
          /\ StoreOk(last'))
         => I2(book', author') ]_vars

\* a Delete Book whose cascade removed the author, other authors being left
C1_Witness ==
  /\ last.op = "delete_book"
  /\ StoreOk(last)
  /\ IssuedStmt(last, "DELETE author")
  /\ author # {}
  /\ I2(book, author)

\* C2: I1, every book row's authorID is the id of an author row.
C2_I1 == \A b \in book : b.authorID \in Ids(author)

\* C3: an author row is deleted only by a DELETE on the author table that a
\* Delete Book or an author reassignment issues on the book's current author
\* after wouldOrphan returned true and after the primary book mutation, issued
\* in between, succeeded; no workflow issues it after a failed primary
\* mutation and no other workflow removes an author row.
C3_Gated(l) ==
  \A i \in DOMAIN l.calls :
    l.calls[i].stmt = "DELETE author" =>
      /\ l.op \in Cascading
      /\ l.calls[i].id = l.aid[1]
      /\ \E j \in 1..(i - 1), k \in 1..(i - 1) :
           /\ j < k
           /\ l.calls[j] = Call(OrphanQuery, l.aid[1], TRUE)
           /\ l.calls[k] = Call(Primary(l.op), l.bid[1], TRUE)
      /\ \A k \in 1..(i - 1) :
           l.calls[k].stmt \in {"UPDATE book", "DELETE book"} => l.calls[k].res

C3_CascadeGating ==
  /\ [] C3_Gated(last)
  /\ [][ (Ids(author) \ Ids(author') # {}) =>
           /\ Ids(author) \ Ids(author') = {last'.aid[1]}
           /\ Issued(last', Call("DELETE author", last'.aid[1], TRUE)) ]_vars

\* a reassignment that removed the author the book left
C3_Witness ==
  /\ last.op = "reassign_existing"
  /\ Len(last.calls) = 3
  /\ last.calls[3] = Call("DELETE author", last.aid[1], TRUE)
  /\ last.aid[1] \notin Ids(author)
  /\ \E b \in book : b.id = last.bid[1] /\ b.authorID # last.aid[1]

\* C4: a Delete Book of the only book of its author, both store calls
\* succeeding, removes that book row and that author row and nothing else;
\* from one book and its one author both tables end empty.
C4_CascadeEndToEnd ==
  [][ (/\ last'.op = "delete_book"
       /\ last'.aid # None
       /\ Refs(book, last'.aid[1]) = { b \in book : b.id = last'.bid[1] }
       /\ Issued(last', Call("DELETE book", last'.bid[1], TRUE))
       /\ StoreOk(last'))
      => /\ book' = { b \in book : b.id # last'.bid[1] }
         /\ author' = { a \in author : a.id # last'.aid[1] }
         /\ last'.bid[1] \in Ids(book)
         /\ last'.aid[1] \in Ids(author)
         /\ (Cardinality(book) = 1 /\ Cardinality(author) = 1
               => book' = {} /\ author' = {}) ]_vars

\* both tables empty after a Delete Book with its cascade
C4_Witness ==
  /\ last.op = "delete_book"
  /\ last.calls = << Call(OrphanQuery, last.aid[1], TRUE),
                     Call("DELETE book", last.bid[1], TRUE),
                     Call("DELETE author", last.aid[1], TRUE) >>
  /\ book = {}
  /\ author = {}

\* C5: a workflow that ends on a declined confirmation leaves both tables as
\* they were.
C5_AbortUnchanged ==
  [][ last'.msgs \in AbortMessages => book' = book /\ author' = author ]_vars

\* the orphan confirmation of a reassignment to a new author was declined
C5_Witness ==
  /\ last.op = "reassign_new"
  /\ last.asked
  /\ last.msgs = <<"Author ID update aborted, returning to main menu">>
  /\ last.aid[1] \in Ids(author)

\* C6: when the primary book mutation succeeds and the DELETE on the author
\* table fails, the workflow prints a consistency warning, which no workflow
\* with a failed primary mutation prints; the book stays deleted or
\* reassigned, the author row stays, and no further store call follows.
ConsistencyWarnings ==
  { "Book Deleted, orphan Author entry created. Please contact system Admin",
    "Removal of Orphan entry unsuccessful, Please contact system administrator" }

Warned(l) == \E i \in DOMAIN l.msgs : l.msgs[i] \in ConsistencyWarnings

PartialFailure(l) ==
  /\ l.op \in Cascading
  /\ l.aid # None
  /\ Issued(l, Call(Primary(l.op), l.bid[1], TRUE))
  /\ Issued(l, Call("DELETE author", l.aid[1], FALSE))

PrimaryFailed(l) ==
  /\ l.op \in Cascading
  /\ l.aid # None
  /\ Issued(l, Call(Primary(l.op), l.bid[1], FALSE))

C6_PartialFailure ==
  /\ [] (PartialFailure(last) =>
           /\ Warned(last)
           /\ last.calls[Len(last.calls)] = Call("DELETE author", last.aid[1], FALSE))
  /\ [] (PrimaryFailed(last) => ~Warned(last))
  /\ [][ PartialFailure(last') =>
           /\ last'.aid[1] \in Ids(author')
           /\ IF last'.op = "delete_book"
                THEN book' = { b \in book : b.id # last'.bid[1] }
                ELSE \E n \in Ids(author') :
                       book' = { IF b.id = last'.bid[1] THEN [b EXCEPT !.authorID = n] ELSE b :
                                 b \in book } ]_vars

\* a reassignment to another author whose cascade failed: the author the
\* book left is still there, without a book
C6_Witness ==
  /\ PartialFailure(last)
  /\ last.op = "reassign_existing"
  /\ Refs(book, last.aid[1]) = {}
  /\ last.aid[1] \in Ids(author)

\* C7: a reassignment or a deletion of a book whose author has two or more
\* books asks no orphan confirmation, issues no DELETE on the author table
\* and leaves that author's row as it was.
C7_NoOrphanCase ==
  [][ (/\ last'.op \in Cascading
       /\ last'.aid # None
       /\ Cardinality(Refs(book, last'.aid[1])) >= 2)
      => /\ ~last'.asked
         /\ ~IssuedStmt(last', "DELETE author")
         /\ { a \in author' : a.id = last'.aid[1] } = { a \in author : a.id = last'.aid[1] }
         /\ last'.aid[1] \in Ids(author') ]_vars

\* a book moved to another author, its former author keeping a book
C7_Witness ==
  /\ last.op \in {"reassign_existing", "reassign_new"}
  /\ last.calls[1] = Call(OrphanQuery, last.aid[1], FALSE)
  /\ Issued(last, Call("UPDATE book", last.bid[1], TRUE))
  /\ \E b \in book : b.id = last.bid[1] /\ b.authorID # last.aid[1]
  /\ Refs(book, last.aid[1]) # {}
  /\ last.aid[1] \in Ids(author)

\* C8: applied to an author referenced by n >= 1 books, update_creates_orphan
\* returns true exactly when n = 1, and it changes neither table.
C8_OrphanDetection ==
  /\ [] (last.op = "update_creates_orphan" /\ Refs(book, last.aid[1]) # {}
           => (last.calls[1].res <=> Cardinality(Refs(book, last.aid[1])) = 1))
  /\ [][ last'.op = "update_creates_orphan" => book' = book /\ author' = author ]_vars

\* false for an author with two books or more
C8_Witness ==
  /\ last.op = "update_creates_orphan"
  /\ Cardinality(Refs(book, last.aid[1])) >= 2
  /\ ~last.calls[1].res

\* C9 as claimed: applied to an author referenced by no book,
\* update_creates_orphan does not return true.
C9_FailsOnOrphan ==
  (last.op = "update_creates_orphan" /\ Refs(book, last.aid[1]) = {})
    => ~last.calls[1].res

\* C9 amended: applied to an author referenced by no book,
\* update_creates_orphan returns true, as it does for one book.
C9_TrueOnOrphan ==
  (last.op = "update_creates_orphan" /\ Refs(book, last.aid[1]) = {})
    => last.calls[1].res

\* true for an author without books
C9_Witness ==
  /\ last.op = "update_creates_orphan"
  /\ Refs(book, last.aid[1]) = {}
  /\ last.calls[1].res

\* C10: unless the id query fails, no INSERT is issued with an id that is a
\* key of its table already, and ids are unique within each table.
C10_Uniqueness ==
  /\ (~last.idQueryFailed => ~last.dupInsert)
  /\ \A r1 \in book, r2 \in book : r1.id = r2.id => r1 = r2
  /\ \A r1 \in author, r2 \in author : r1.id = r2.id => r1 = r2

\* an id already present was typed and turned down, then a book inserted
C10_Witness ==
  /\ last.op = "add_book"
  /\ last.turnedDown
  /\ ~last.idQueryFailed
  /\ Issued(last, Call("INSERT book", last.bid[1], TRUE))

(***************************************************************************)
(* C11: every id that get_valid_id or get_existing_id accepts, whatever    *)
(* integer is typed, lies in 1000..9999.                                   *)
(***************************************************************************)
C11_IdDomain ==
  last.op \in {"get_valid_id", "get_existing_id"} => last.bid[1] \in 1000..9999

(***************************************************************************)
(* C12: over every catalogue, also one with more than five qualifying      *)
(* entries, retrieve_similar_titles returns the joined rows of exactly the *)
(* books whose title differs from the excluded title and scores at least   *)
(* 90 against the query, in descending order of score: no row under the    *)
(* threshold is returned and none at or above it is left out.              *)
(***************************************************************************)
Qualifying(data, title, excluded_title) ==
  { data[i] : i \in { j \in 1..Len(data) :
                        /\ data[j].title # excluded_title
                        /\ Score(title, data[j].title) >= TitleThreshold } }

C12_DetectionThreshold ==
  last.op = "retrieve_similar_titles" =>
    /\ { last.rows[i] : i \in 1..Len(last.rows) }
         = Qualifying(Join(book, author), last.typed[1], last.typed[2])
    /\ \A i, j \in 1..Len(last.rows) :
         i < j => Score(last.typed[1], last.rows[i].title)
                    >= Score(last.typed[1], last.rows[j].title)

(***************************************************************************)
(* C13: the result of retrieve_similar_titles(title, excluded_title) has   *)
(* no row whose title equals the excluded title, and over a catalogue      *)
(* whose only title is the excluded title the result is empty.             *)
(***************************************************************************)
C13_Exclusion ==
  last.op = "retrieve_similar_titles" =>
    /\ \A i \in 1..Len(last.rows) : last.rows[i].title # last.typed[2]
    /\ (\A b \in book : b.title = last.typed[2]) => last.rows = <<>>

\* the excluded title is in the catalogue, matches the query, and other rows
\* are returned
C13_Witness ==
  /\ last.op = "retrieve_similar_titles"
  /\ last.typed = <<"Dune", "Dune">>
  /\ \E b \in book : b.title = "Dune"
  /\ last.rows # <<>>

(***************************************************************************)
(* C14: when add_author returns the failure signal, Add Book issues no     *)
(* INSERT on book, and every book row Add Book inserts carries as authorID *)
(* the id of an author row that exists when the row is inserted.           *)
(***************************************************************************)
AuthorInsertFailed(l) ==
  \E i \in 1..Len(l.calls) : l.calls[i].stmt = "INSERT author" /\ ~l.calls[i].res

C14_NoBookWithoutAuthor ==
  [][ last'.op = "add_book" =>
        /\ (AuthorInsertFailed(last') \/ last'.aid = None) =>
             (~IssuedStmt(last', "INSERT book") /\ book' = book)
        /\ \A b \in book' \ book : b.authorID \in Ids(author') ]_vars

\* Add Book ended because the INSERT of its new author failed
C14_Witness ==
  /\ last.op = "add_book"
  /\ AuthorInsertFailed(last)
  /\ last.msgs = <<"Error generating new Author, add book aborted">>

TitleOf(bk, id) == (CHOOSE b \in bk : b.id = id).title

C16_TitleUpdated ==
  [][ last'.op = "update_title" =>
        LET found    == last'.rows # <<>>
            declined == found /\ ~IssuedStmt(last', "UPDATE book title")
            failed   == Issued(last', Call("UPDATE book title", last'.bid[1], FALSE))
        IN  /\ (~declined /\ ~failed) => TitleOf(book', last'.bid[1]) = last'.typed[1]
            /\ declined => TitleOf(book', last'.bid[1]) = TitleOf(book, last'.bid[1]) ]_vars

(***************************************************************************)
(* C17: Update Quantity issues the update for every integer entered,       *)
(* positive, zero or negative; when the store update succeeds the qty of   *)
(* the book is the integer entered, and the workflow reports an error if   *)
(* and only if the store update failed.  (Stated for the runs in which     *)
(* get_valid_integer returned the integer entered.)                        *)
(***************************************************************************)
QtyOf(bk, id) == (CHOOSE b \in bk : b.id = id).qty

C17_QuantityUpdate ==
  [][ (last'.op = "update_quantity" /\ last'.typed[1] # None) =>
        LET updated == Issued(last', Call("UPDATE book qty", last'.bid[1], TRUE))
        IN  /\ IssuedStmt(last', "UPDATE book qty")
            /\ updated => QtyOf(book', last'.bid[1]) = last'.typed[1]
            /\ (last'.msgs = <<"Error updating stock, please contact system admin">>)
                 <=> ~updated ]_vars

(***************************************************************************)
(* C18: get_valid_integer returns an integer for every sequence of         *)
(* non-integer entries followed by an integer, so the qty of every book    *)
(* row is an integer and never None, whether Add Book or Update Quantity   *)
(* wrote it.                                                               *)
(***************************************************************************)
C18_QuantityInteger == \A b \in book : b.qty # None

(***************************************************************************)
(* C19: when a read query of a workflow fails, the workflow ends there     *)
(* without any further mutation: an id-existence check whose query failed  *)
(* does not make the new-id prompt accept the id and the workflow go on    *)
(* to its statements.                                                      *)
(***************************************************************************)
C19_ReadFailure ==
  last.idQueryFailed =>
    \A i \in 1..Len(last.calls) :
      last.calls[i].stmt \notin
        {"INSERT author", "INSERT book", "UPDATE book", "DELETE author", "DELETE book"}

(***************************************************************************)
(* C20: no workflow of Update Book changes the id of a book or author row. *)
(* Update Quantity changes only the qty of the selected book row and       *)
(* Update Title only its title; a reassignment changes only the authorID   *)
(* of the selected book row, besides the author the cascade deletes and    *)
(* the author row add_author creates; Update Author Name and Update Author *)
(* Country change only the name, or the country, of the one author row of  *)
(* the selected book, change no book row and delete no author.             *)
(***************************************************************************)
RowOf(table, id) == CHOOSE r \in table : r.id = id

\* the rows of the table other than id are as they were, and no row came or went
OthersKept(before, after, id) ==
  /\ Ids(after) = Ids(before)
  /\ Cardinality(after) = Cardinality(before)
  /\ \A r \in before : r.id # id => r \in after

C20_UpdateFrames ==
  [][ LET bid == last'.bid[1]
          aid == last'.aid[1]
          b   == RowOf(book, bid)
          c   == RowOf(book', bid)
          a   == RowOf(author, aid)
          d   == RowOf(author', aid)
      IN  /\ last'.op = "update_quantity" =>
               /\ author' = author
               /\ OthersKept(book, book', bid)
               /\ c = [b EXCEPT !.qty = c.qty]
          /\ last'.op = "update_title" =>
               /\ author' = author
               /\ OthersKept(book, book', bid)
               /\ c = [b EXCEPT !.title = c.title]
          /\ last'.op \in {"reassign_existing", "reassign_new"} =>
               /\ OthersKept(book, book', bid)
               /\ c = [b EXCEPT !.authorID = c.authorID]
               /\ \A x \in author \ author' :
                    x.id = aid /\ Issued(last', Call("DELETE author", aid, TRUE))
               /\ \A x \in author' \ author :
                    x.id \notin Ids(author) /\ Issued(last', Call("INSERT author", x.id, TRUE))
          /\ last'.op = "update_author_name" =>
               /\ book' = book
               /\ OthersKept(author, author', aid)
               /\ d = [a EXCEPT !.name = d.name]
          /\ last'.op = "update_author_country" =>
               /\ book' = book
               /\ OthersKept(author, author', aid)
               /\ d = [a EXCEPT !.country = d.country] ]_vars

\* a reassignment to a new author whose cascade deleted the former author
C20_Witness ==
  /\ last.op = "reassign_new"
  /\ \E i \in 1..Len(last.calls) : last.calls[i].stmt = "INSERT author" /\ last.calls[i].res
  /\ Issued(last, Call("DELETE author", last.aid[1], TRUE))
  /\ Cardinality(book) > 1

(***************************************************************************)
(* C21: Search by id, Search by title, View All, retrieve_similar_titles,  *)
(* retrieve_similar_authors, update_creates_orphan and get_affected_books  *)
(* leave the book table and the author table as they were, in every state  *)
(* and for every input.                                                    *)
(***************************************************************************)
ReadOps ==
  { "search_by_id", "search_by_title", "view_all_books", "retrieve_similar_titles",
    "retrieve_similar_authors", "update_creates_orphan", "get_affected_books" }

C21_ReadOnly ==
  [][ last'.op \in ReadOps => (book' = book /\ author' = author) ]_vars

\* a search by id showed the book it was asked for
C21_Witness ==
  /\ last.op = "search_by_id"
  /\ last.rows # <<>>
  /\ last.rows[1].bid = last.bid[1]
  /\ \E b \in book : b.id = last.bid[1]

(***************************************************************************)
(* C22: the cascade deletes only true orphans: whenever a workflow deletes *)
(* an author row, no book row references that author after the primary     *)
(* mutation, whatever the target of a reassignment.                        *)
(***************************************************************************)
C22_OnlyTrueOrphans ==
  [][ \A a \in author \ author' : Refs(book', a.id) = {} ]_vars

(***************************************************************************)
(* C23: for every book id that get_existing_id accepts, the joined lookup  *)
(* of Update Book, Delete Book and Search by id returns exactly one row,   *)
(* and no workflow indexes the first row of an empty result.               *)
(***************************************************************************)
C23_LookupNeverEmpty ==
  /\ \A b \in book :
       StrLen(b.id) = IdLength => Len(JoinById(book, author, b.id)) = 1
  /\ last.msgs # <<IndexError>>

(***************************************************************************)
(* C24: when the INSERT on book of Add Book fails, or the UPDATE of        *)
(* book.authorID of a reassignment to a new author fails, the author table *)
(* at the end of the workflow is the author table at its start.            *)
(***************************************************************************)
C24_AuthorsRestored ==
  [][ ( \/ /\ last'.op = "add_book"
           /\ \E i \in DOMAIN last'.calls :
                last'.calls[i].stmt = "INSERT book" /\ ~last'.calls[i].res
        \/ /\ last'.op = "reassign_new"
           /\ \E i \in DOMAIN last'.calls :
                last'.calls[i].stmt = "UPDATE book" /\ ~last'.calls[i].res )
        => author' = author ]_vars

(***************************************************************************)
(* C25: the main menu stays reachable: in every reachable state, also with *)
(* an empty book table, the session is at the main menu or was left by     *)
(* Exit; it is never held in a prompt no entry can satisfy, nor ended by   *)
(* a traceback.                                                            *)
(***************************************************************************)
C25_MenuReachable == alive \/ last.op = "exit"

(***************************************************************************)
(* C26: retrieve_similar_titles returns each qualifying book row at most   *)
(* once, also when several books share a title.                            *)
(***************************************************************************)
C26_NoDuplicateRows ==
  last.op = "retrieve_similar_titles" =>
    \A i, j \in 1..Len(last.rows) : i < j => last.rows[i] # last.rows[j]

====
